---- MODULE Spec2Model ----
(***************************************************************************)
(* Model of timesketch/lib/llms/providers/contrib/openai.py: the OpenAI    *)
(* LLM provider (class OpenAI: __init__ and generate).                     *)
(*                                                                         *)
(* Python values are tagged records [t, v]; Python str values are TLA+     *)
(* strings, so slicing, len() and f-string concatenation are SubSeq, Len   *)
(* and \o.  The vendor SDK client is the environment: each call of         *)
(* client.chat.completions.create either raises one of the SDK's           *)
(* exceptions or returns a response object of some shape.                  *)
(***************************************************************************)
EXTENDS Integers, Sequences, FiniteSets, TLC

VARIABLES
    has_required_deps,  \* module flag, openai.py:8-13
    provider,           \* the constructed OpenAI object (self), or NoProvider
    init_call,          \* the last OpenAI(config) call: its config and what it raised
    n_generate,         \* number of generate() invocations so far
    n_create,           \* number of client.chat.completions.create() calls so far
    last,               \* the last generate() call: inputs, transport outcome, result
    sent                \* every (prompt, response_schema, payload) passed to create()

vars == <<has_required_deps, provider, init_call, n_generate, n_create, last, sent>>

\* Bound on the number of generate() invocations explored.
MaxCalls == 2

\* Number of lengths explored on each side of the truncation limit.
MaxExtra == 1

-----------------------------------------------------------------------------
(* Python values                                                           *)

PyNone == [t |-> "none", v |-> ""]
PyStr(s) == [t |-> "str", v |-> s]
PyInt(n) == [t |-> "int", v |-> n]
\* a list is its sequence of items; a dict its sequence of <<key, value>> pairs
PyList(items) == [t |-> "list", v |-> items]
PyDict(pairs) == [t |-> "dict", v |-> pairs]
\* an object is the function from its attribute names to their values
PyObj(attrs) == [t |-> "obj", v |-> attrs]
PyBool(b) == [t |-> "bool", v |-> b]

\* Python truth value testing, as used by `not self.api_key`, `if response_schema:`
Truthy(x) ==
    CASE x.t = "none" -> FALSE
      [] x.t = "str" -> Len(x.v) > 0
      [] x.t = "int" -> x.v # 0
      [] x.t = "bool" -> x.v
      [] x.t = "list" -> Len(x.v) > 0
      [] x.t = "dict" -> Len(x.v) > 0
      [] OTHER -> TRUE

\* dict.get(key, default) on a config mapping
Get(d, key, default) == IF key \in DOMAIN d THEN d[key] ELSE default

\* `sub in s` for two str
Contains(s, sub) ==
    \E i \in 0..(Len(s) - Len(sub)) : SubSeq(s, i + 1, i + Len(sub)) = sub

StartsWith(s, pre) == Len(s) >= Len(pre) /\ SubSeq(s, 1, Len(pre)) = pre

RECURSIVE Repeat(_, _)
Repeat(s, n) == IF n <= 0 THEN "" ELSE s \o Repeat(s, n - 1)

-----------------------------------------------------------------------------
(* Exceptions                                                              *)

NoExc == [cls |-> "", msg |-> ""]
Exc(cls, msg) == [cls |-> cls, msg |-> msg]

\* The direct base class of each exception class ("" above Exception).
\* openai: APITimeoutError < APIConnectionError < APIError < OpenAIError;
\* APIStatusError < APIError; json.JSONDecodeError < ValueError.
Base(cls) ==
    CASE cls = "APITimeoutError" -> "APIConnectionError"
      [] cls = "APIConnectionError" -> "APIError"
      [] cls = "APIStatusError" -> "APIError"
      [] cls = "APIError" -> "OpenAIError"
      [] cls = "OpenAIError" -> "Exception"
      [] cls = "JSONDecodeError" -> "ValueError"
      [] cls = "IndexError" -> "LookupError"
      [] cls = "KeyError" -> "LookupError"
      [] cls = "LookupError" -> "Exception"
      [] cls = "AttributeError" -> "Exception"
      [] cls = "TypeError" -> "Exception"
      [] cls = "ValueError" -> "Exception"
      [] OTHER -> ""

RECURSIVE IsInstance(_, _)
IsInstance(cls, of) ==
    IF cls = "" THEN FALSE ELSE cls = of \/ IsInstance(Base(cls), of)

\* `except (A, B) as e` matches when the raised class derives from A or B
Catches(classes, cls) == \E c \in classes : IsInstance(cls, c)

-----------------------------------------------------------------------------
(* Configuration                                                           *)

DEFAULT_TIMEOUT == 60

\* interface.DEFAULT_MAX_OUTPUT_TOKENS, DEFAULT_TEMPERATURE, DEFAULT_TOP_P:
\* values of the shared interface module, kept symbolic.
DEFAULT_MAX_OUTPUT_TOKENS == PyStr("interface.DEFAULT_MAX_OUTPUT_TOKENS")
DEFAULT_TEMPERATURE == PyStr("interface.DEFAULT_TEMPERATURE")
DEFAULT_TOP_P == PyStr("interface.DEFAULT_TOP_P")

Absent == [t |-> "absent", v |-> ""]

ConfigKeys ==
    {"api_key", "model", "base_url", "timeout",
     "max_output_tokens", "temperature", "top_p"}

\* A config dict from one option per key; Absent leaves the key out.
MkConfig(api_key, model, base_url, tuned) ==
    LET full == [k \in ConfigKeys |->
                    CASE k = "api_key" -> api_key
                      [] k = "model" -> model
                      [] k = "base_url" -> base_url
                      [] k = "timeout" -> IF tuned THEN PyInt(5) ELSE Absent
                      [] k = "max_output_tokens" -> IF tuned THEN PyInt(256) ELSE Absent
                      [] k = "temperature" -> IF tuned THEN PyStr("0.7") ELSE Absent
                      [] OTHER -> IF tuned THEN PyStr("0.9") ELSE Absent]
    IN [k \in {j \in ConfigKeys : full[j].t # "absent"} |-> full[k]]

\* api_key and model missing, None, empty or set; base_url missing or set; the
\* timeout and the generation options all missing or all set
Configs ==
    { MkConfig(a, m, b, g) :
        a \in {Absent, PyNone, PyStr(""), PyStr("test-key")},
        m \in {Absent, PyStr(""), PyStr("gpt-4")},
        b \in {Absent, PyStr("https://custom.openai.com")},
        g \in BOOLEAN }

-----------------------------------------------------------------------------
(* OpenAI.__init__                                                         *)

NoClient == [api_key |-> PyNone, timeout |-> PyNone, base_url |-> PyNone]
NoProvider ==
    [exists |-> FALSE, config |-> << >>, api_key |-> PyNone, model |-> PyNone,
     client |-> NoClient]

\* The vendor's endpoint, which the SDK client targets when it is given no base_url.
CANONICAL_BASE_URL == "https://api.openai.com/v1/"

\* OpenAIClient(api_key=..., timeout=...): base_url is not among the arguments.
OpenAIClient(api_key, timeout) ==
    [api_key |-> api_key, timeout |-> timeout, base_url |-> PyStr(CANONICAL_BASE_URL)]

\* interface.LLMProvider.__init__: keeps the config mapping on the object.
LLMProvider__init__(config) == config

\* OpenAI(config) with the model check made before the api_key check.
OpenAI__init__ModelFirst(config) ==
    LET self_config == LLMProvider__init__(config)
        api_key == Get(self_config, "api_key", PyNone)
        model == Get(self_config, "model", PyNone)
        timeout == Get(self_config, "timeout", PyInt(DEFAULT_TIMEOUT))
    IN  IF ~has_required_deps
        THEN [exc |-> Exc("ValueError",
                          "OpenAI provider requires the 'openai' package. "
                          \o "Install it with: pip install openai"),
              self |-> NoProvider]
        ELSE IF ~Truthy(model)
        THEN [exc |-> Exc("ValueError", "model is required for OpenAI provider"),
              self |-> NoProvider]
        ELSE IF ~Truthy(api_key)
        THEN [exc |-> Exc("ValueError", "api_key is required for OpenAI provider"),
              self |-> NoProvider]
        ELSE [exc |-> NoExc,
              self |-> [exists |-> TRUE, config |-> self_config,
                        api_key |-> api_key, model |-> model,
                        client |-> OpenAIClient(api_key, timeout)]]

\* OpenAI(config): the exception raised (NoExc when none) and the object built.
OpenAI__init__(config) ==
    LET self_config == LLMProvider__init__(config)
        api_key == Get(self_config, "api_key", PyNone)
        model == Get(self_config, "model", PyNone)
        timeout == Get(self_config, "timeout", PyInt(DEFAULT_TIMEOUT))
    IN  IF ~has_required_deps
        THEN [exc |-> Exc("ValueError",
                          "OpenAI provider requires the 'openai' package. "
                          \o "Install it with: pip install openai"),
              self |-> NoProvider]
        ELSE IF ~Truthy(api_key)
        THEN [exc |-> Exc("ValueError", "api_key is required for OpenAI provider"),
              self |-> NoProvider]
        ELSE IF ~Truthy(model)
        THEN [exc |-> Exc("ValueError", "model is required for OpenAI provider"),
              self |-> NoProvider]
        ELSE [exc |-> NoExc,
              self |-> [exists |-> TRUE, config |-> self_config,
                        api_key |-> api_key, model |-> model,
                        client |-> OpenAIClient(api_key, timeout)]]

NoInitCall == [called |-> FALSE, config |-> << >>, exc |-> NoExc]

-----------------------------------------------------------------------------
(* json.loads                                                              *)
(* The decoder for the JSON texts explored here: null, true, false,        *)
(* integers, strings with the one-character escapes, arrays and objects,   *)
(* with whitespace between tokens.  Fractions, exponents and the \b and   *)
(* \u escapes occur in none of the texts and are not decoded.              *)

\* the character of s at position i ("" past the end)
Ch(s, i) == IF i >= 1 /\ i <= Len(s) THEN SubSeq(s, i, i) ELSE ""

JsonWs == {" ", "\t", "\n", "\r"}
JsonDigits == {"0", "1", "2", "3", "4", "5", "6", "7", "8", "9"}

DigitVal(c) ==
    CASE c = "0" -> 0 [] c = "1" -> 1 [] c = "2" -> 2 [] c = "3" -> 3
      [] c = "4" -> 4 [] c = "5" -> 5 [] c = "6" -> 6 [] c = "7" -> 7
      [] c = "8" -> 8 [] OTHER -> 9

JsonFail == [ok |-> FALSE, val |-> PyNone, pos |-> 0]
JsonOk(val, pos) == [ok |-> TRUE, val |-> val, pos |-> pos]

RECURSIVE SkipWs(_, _)
SkipWs(s, i) == IF Ch(s, i) \in JsonWs THEN SkipWs(s, i + 1) ELSE i

RECURSIVE ScanDigits(_, _, _)
ScanDigits(s, i, acc) ==
    IF Ch(s, i) \in JsonDigits
    THEN ScanDigits(s, i + 1, acc * 10 + DigitVal(Ch(s, i)))
    ELSE JsonOk(PyInt(acc), i)

ParseNumber(s, i) ==
    LET neg == Ch(s, i) = "-"
        j == IF neg THEN i + 1 ELSE i
        r == IF Ch(s, j) = "0" THEN JsonOk(PyInt(0), j + 1)
             ELSE IF Ch(s, j) \in JsonDigits THEN ScanDigits(s, j, 0)
             ELSE JsonFail
    IN IF r.ok /\ neg THEN JsonOk(PyInt(0 - r.val.v), r.pos) ELSE r

Unescape(c) ==
    CASE c = "n" -> "\n" [] c = "t" -> "\t" [] c = "r" -> "\r"
      [] c = "f" -> "\f" [] OTHER -> c

\* the characters after an opening quote at i - 1, up to the closing quote
RECURSIVE ScanString(_, _, _)
ScanString(s, i, acc) ==
    LET c == Ch(s, i)
    IN IF c = "" \/ c \in {"\t", "\n", "\r"} THEN JsonFail
       ELSE IF c = "\"" THEN JsonOk(PyStr(acc), i + 1)
       ELSE IF c = "\\"
       THEN IF Ch(s, i + 1) \in {"\"", "\\", "/", "f", "n", "r", "t"}
            THEN ScanString(s, i + 2, acc \o Unescape(Ch(s, i + 1)))
            ELSE JsonFail
       ELSE ScanString(s, i + 1, acc \o c)

Literal(s, i, word, val) ==
    IF i + Len(word) - 1 <= Len(s) /\ SubSeq(s, i, i + Len(word) - 1) = word
    THEN JsonOk(val, i + Len(word))
    ELSE JsonFail

\* d[key] = val on a dict's pairs: a repeated key keeps its place and takes the new value
RECURSIVE DictSet(_, _, _)
DictSet(pairs, key, val) ==
    IF pairs = << >> THEN << <<key, val>> >>
    ELSE IF Head(pairs)[1] = key THEN << <<key, val>> >> \o Tail(pairs)
    ELSE << Head(pairs) >> \o DictSet(Tail(pairs), key, val)

RECURSIVE ParseValue(_, _)
RECURSIVE ParseElems(_, _, _)
RECURSIVE ParseMembers(_, _, _)

\* the elements of an array after "[" or ",": value, then "," or "]"
ParseElems(s, i, acc) ==
    LET r == ParseValue(s, SkipWs(s, i))
        j == SkipWs(s, r.pos)
    IN IF ~r.ok THEN JsonFail
       ELSE IF Ch(s, j) = "," THEN ParseElems(s, j + 1, Append(acc, r.val))
       ELSE IF Ch(s, j) = "]" THEN JsonOk(PyList(Append(acc, r.val)), j + 1)
       ELSE JsonFail

\* the members of an object after "{" or ",": "key" : value, then "," or "}"
ParseMembers(s, i, acc) ==
    LET k0 == SkipWs(s, i)
        k == IF Ch(s, k0) = "\"" THEN ScanString(s, k0 + 1, "") ELSE JsonFail
        c == SkipWs(s, k.pos)
        r == IF k.ok /\ Ch(s, c) = ":" THEN ParseValue(s, SkipWs(s, c + 1)) ELSE JsonFail
        j == SkipWs(s, r.pos)
    IN IF ~r.ok THEN JsonFail
       ELSE IF Ch(s, j) = "," THEN ParseMembers(s, j + 1, DictSet(acc, k.val.v, r.val))
       ELSE IF Ch(s, j) = "}" THEN JsonOk(PyDict(DictSet(acc, k.val.v, r.val)), j + 1)
       ELSE JsonFail

ParseValue(s, i) ==
    LET c == Ch(s, i)
    IN CASE c = "n" -> Literal(s, i, "null", PyNone)
         [] c = "t" -> Literal(s, i, "true", PyBool(TRUE))
         [] c = "f" -> Literal(s, i, "false", PyBool(FALSE))
         [] c = "\"" -> ScanString(s, i + 1, "")
         [] c = "-" \/ c \in JsonDigits -> ParseNumber(s, i)
         [] c = "[" -> IF Ch(s, SkipWs(s, i + 1)) = "]"
                       THEN JsonOk(PyList(<< >>), SkipWs(s, i + 1) + 1)
                       ELSE ParseElems(s, i + 1, << >>)
         [] c = "{" -> IF Ch(s, SkipWs(s, i + 1)) = "}"
                       THEN JsonOk(PyDict(<< >>), SkipWs(s, i + 1) + 1)
                       ELSE ParseMembers(s, i + 1, << >>)
         [] OTHER -> JsonFail

\* json.loads(x): the value decoded, or the exception raised.  A str that is not
\* one JSON document raises JSONDecodeError; an argument that is no str raises
\* TypeError.
json_loads(x) ==
    IF x.t # "str"
    THEN [exc |-> Exc("TypeError", "the JSON object must be str, bytes or bytearray"),
          val |-> PyNone]
    ELSE LET r == ParseValue(x.v, SkipWs(x.v, 1))
         IN IF r.ok /\ SkipWs(x.v, r.pos) = Len(x.v) + 1
            THEN [exc |-> NoExc, val |-> r.val]
            ELSE [exc |-> Exc("JSONDecodeError", "Expecting value"), val |-> PyNone]

-----------------------------------------------------------------------------
(* The transport: client.chat.completions.create                           *)

\* getattr(x, name): only an object that has the attribute yields it
GetAttr(x, name) ==
    IF x.t = "obj" /\ name \in DOMAIN x.v
    THEN [exc |-> NoExc, val |-> x.v[name]]
    ELSE [exc |-> Exc("AttributeError", "object has no attribute '" \o name \o "'"),
          val |-> PyNone]

\* x[0]
Subscript0(x) ==
    CASE x.t = "list" ->
            IF Len(x.v) > 0 THEN [exc |-> NoExc, val |-> x.v[1]]
            ELSE [exc |-> Exc("IndexError", "list index out of range"), val |-> PyNone]
      [] x.t = "str" ->
            IF Len(x.v) > 0 THEN [exc |-> NoExc, val |-> PyStr(SubSeq(x.v, 1, 1))]
            ELSE [exc |-> Exc("IndexError", "string index out of range"), val |-> PyNone]
      [] x.t = "dict" ->
            \* the keys of the dicts explored are str: 0 is none of them
            [exc |-> Exc("KeyError", "0"), val |-> PyNone]
      [] OTHER ->
            [exc |-> Exc("TypeError", "object is not subscriptable"), val |-> PyNone]

\* a well-formed chat completion carrying `content`
Completion(content) ==
    PyObj([choices |-> PyList(<< PyObj([message |-> PyObj([content |-> content])]) >>)])

LongJson == "[" \o Repeat("1, ", 40) \o "1]"

Contents ==
    {PyStr("This is a test response"),
     PyStr("{\"answer\": \"test answer\"}"),
     PyStr("not valid json"),
     PyStr("42"),
     PyStr(""),
     PyStr(LongJson),
     PyNone,
     PyInt(7)}
    \cup {PyStr(Repeat("x", n)) : n \in (100 - MaxExtra)..(100 + MaxExtra)}

\* responses whose shape is not choices[0].message.content
MalformedResponses ==
    {PyObj([choices |-> PyList(<< >>)]),
     PyObj([choices |-> PyNone]),
     PyObj([choices |-> PyInt(0)]),
     PyObj([choices |-> PyDict(<< >>)]),
     PyObj([choices |-> PyStr("")]),
     PyObj([choices |-> PyList(<< PyObj([message |-> PyNone]) >>)]),
     PyObj([choices |-> PyList(<< PyObj([message |-> PyObj([role |-> PyStr("assistant")])]) >>)]),
     PyObj([choices |-> PyList(<< PyDict(<< <<"message", PyDict(<< >>)>> >>) >>)]),
     PyObj([id |-> PyStr("chatcmpl-1")]),
     PyNone}

\* the exceptions the SDK raises, with the text str(error) gives
TransportErrors ==
    {Exc("APITimeoutError", "Request timed out."),
     Exc("APIConnectionError", "Connection error."),
     Exc("APIStatusError", "Error code: 401 - Incorrect API key provided: test-key"),
     Exc("APIStatusError", "Error code: 429 - Rate limit reached"),
     Exc("OpenAIError", "Missing credentials")}

\* what one create() call can do: raise, or return a response
TransportOutcomes ==
    {[exc |-> e, response |-> PyNone] : e \in TransportErrors}
    \cup {[exc |-> NoExc, response |-> r] : r \in MalformedResponses}
    \cup {[exc |-> NoExc, response |-> Completion(c)] : c \in Contents}

Prompts == {"Test prompt", "Other prompt"}

\* response_schema: omitted (None), an empty schema, a schema with content
Schemas ==
    {PyNone,
     PyDict(<< >>),
     PyDict(<< <<"type", PyStr("object")>> >>)}

-----------------------------------------------------------------------------
(* OpenAI.generate                                                         *)

TRUNCATE_LEN == 100

\* create_kwargs that falls back to another model after the first call.
create_kwargs_Drift(self, prompt, response_schema) ==
    LET model == IF n_generate > 0 THEN PyStr("gpt-3.5-turbo") ELSE self.model
        max_tokens == Get(self.config, "max_output_tokens", DEFAULT_MAX_OUTPUT_TOKENS)
        temperature == Get(self.config, "temperature", DEFAULT_TEMPERATURE)
        top_p == Get(self.config, "top_p", DEFAULT_TOP_P)
        messages == << [role |-> "user", content |-> prompt] >>
    IN IF Truthy(response_schema)
       THEN [model |-> model, messages |-> messages, max_tokens |-> max_tokens,
             temperature |-> temperature, top_p |-> top_p,
             response_format |-> [type |-> "json_object"]]
       ELSE [model |-> model, messages |-> messages, max_tokens |-> max_tokens,
             temperature |-> temperature, top_p |-> top_p]

\* create_kwargs, with response_format added when `if response_schema:` holds
create_kwargs(self, prompt, response_schema) ==
    LET max_tokens == Get(self.config, "max_output_tokens", DEFAULT_MAX_OUTPUT_TOKENS)
        temperature == Get(self.config, "temperature", DEFAULT_TEMPERATURE)
        top_p == Get(self.config, "top_p", DEFAULT_TOP_P)
        messages == << [role |-> "user", content |-> prompt] >>
    IN IF Truthy(response_schema)
       THEN [model |-> self.model, messages |-> messages, max_tokens |-> max_tokens,
             temperature |-> temperature, top_p |-> top_p,
             response_format |-> [type |-> "json_object"]]
       ELSE [model |-> self.model, messages |-> messages, max_tokens |-> max_tokens,
             temperature |-> temperature, top_p |-> top_p]

\* create() called again after a timeout.
chat_completions_create_Retry(kwargs, outcome) ==
    [calls |-> IF IsInstance(outcome.exc.cls, "APITimeoutError")
               THEN << kwargs, kwargs >> ELSE << kwargs >>,
     exc |-> outcome.exc, response |-> outcome.response]

\* response = self.client.chat.completions.create(**create_kwargs):
\* the calls made on the transport, and what the call raised or returned
chat_completions_create(kwargs, outcome) ==
    [calls |-> << kwargs >>, exc |-> outcome.exc, response |-> outcome.response]

\* response_data = response.choices[0].message.content
response_data_of(response) ==
    LET choices == GetAttr(response, "choices")
        choice == IF choices.exc = NoExc THEN Subscript0(choices.val) ELSE choices
        message == IF choice.exc = NoExc THEN GetAttr(choice.val, "message") ELSE choice
    IN IF message.exc = NoExc THEN GetAttr(message.val, "content") ELSE message

SHAPE_MESSAGE ==
    "Unexpected response structure from OpenAI API. "
    \o "Please check your model and API configuration."

TimeoutMessage(error) == "Request timed out: " \o error.msg
RequestMessage(error) == "Error making request: " \o error.msg
ApiMessage(error) == "OpenAI API error: " \o error.msg

\* the except clauses of the try block, in order; an exception none of them
\* matches propagates as it is
ExceptClauses(error) ==
    IF Catches({"APITimeoutError"}, error.cls)
    THEN Exc("ValueError", TimeoutMessage(error))
    ELSE IF Catches({"APIConnectionError", "APIError"}, error.cls)
    THEN Exc("ValueError", RequestMessage(error))
    ELSE IF Catches({"AttributeError", "IndexError", "KeyError"}, error.cls)
    THEN Exc("ValueError", SHAPE_MESSAGE)
    ELSE IF Catches({"OpenAIError"}, error.cls)
    THEN Exc("ValueError", ApiMessage(error))
    ELSE error

\* the truncation with `>=` for `>`
TruncatedInclusive(response_data) ==
    IF Len(response_data) >= TRUNCATE_LEN
    THEN SubSeq(response_data, 1, TRUNCATE_LEN) \o "..."
    ELSE response_data

\* truncated = response_data[:100] + "..." if len(response_data) > 100 else response_data
Truncated(response_data) ==
    IF Len(response_data) > TRUNCATE_LEN
    THEN SubSeq(response_data, 1, TRUNCATE_LEN) \o "..."
    ELSE response_data

PARSE_PREFIX == "Error JSON parsing response (first 100 chars): "

\* the parse message with the whole text
ParseMessageFull(response_data) == PARSE_PREFIX \o response_data

ParseMessage(response_data) == PARSE_PREFIX \o Truncated(response_data)

\* generate(prompt, response_schema) against a transport that answers `outcome`:
\* the object afterwards, the create() calls made, and the exception raised
\* (NoExc when none) or the value returned
OpenAI_generate(self, prompt, response_schema, outcome) ==
    LET kwargs == create_kwargs(self, prompt, response_schema)
        call == chat_completions_create(kwargs, outcome)
        tried == IF call.exc = NoExc
                 THEN response_data_of(call.response)
                 ELSE [exc |-> call.exc, val |-> PyNone]
        loaded == json_loads(tried.val)
    IN IF tried.exc # NoExc
       THEN [self |-> self, created |-> call.calls,
             raised |-> ExceptClauses(tried.exc), value |-> PyNone]
       ELSE IF Truthy(response_schema)
       THEN IF loaded.exc = NoExc
            THEN [self |-> self, created |-> call.calls,
                  raised |-> NoExc, value |-> loaded.val]
            ELSE IF Catches({"JSONDecodeError"}, loaded.exc.cls)
            THEN [self |-> self, created |-> call.calls,
                  raised |-> Exc("ValueError", ParseMessage(tried.val.v)),
                  value |-> PyNone]
            ELSE [self |-> self, created |-> call.calls,
                  raised |-> loaded.exc, value |-> PyNone]
       ELSE [self |-> self, created |-> call.calls,
             raised |-> NoExc, value |-> tried.val]

NoCall ==
    [prompt |-> "", response_schema |-> PyNone,
     outcome |-> [exc |-> NoExc, response |-> PyNone],
     created |-> << >>, raised |-> NoExc, value |-> PyNone]

-----------------------------------------------------------------------------
Init ==
    /\ has_required_deps \in BOOLEAN
    /\ provider = NoProvider
    /\ init_call = NoInitCall
    /\ n_generate = 0
    /\ n_create = 0
    /\ last = NoCall
    /\ sent = {}

\* provider = OpenAI(config)
Construct ==
    /\ ~init_call.called
    /\ \E config \in Configs :
         LET r == OpenAI__init__(config)
         IN /\ provider' = r.self
            /\ init_call' = [called |-> TRUE, config |-> config, exc |-> r.exc]
    /\ UNCHANGED <<has_required_deps, n_generate, n_create, last, sent>>

\* provider.generate(prompt, response_schema) on the constructed provider
Generate ==
    /\ provider.exists
    /\ n_generate < MaxCalls
    /\ \E prompt \in Prompts, response_schema \in Schemas, outcome \in TransportOutcomes :
         LET r == OpenAI_generate(provider, prompt, response_schema, outcome)
         IN /\ provider' = r.self
            /\ n_generate' = n_generate + 1
            /\ n_create' = n_create + Len(r.created)
            /\ last' = [prompt |-> prompt, response_schema |-> response_schema,
                        outcome |-> outcome, created |-> r.created,
                        raised |-> r.raised, value |-> r.value]
            /\ sent' = sent \cup
                  {[prompt |-> prompt, response_schema |-> response_schema,
                    kwargs |-> r.created[i]] : i \in 1..Len(r.created)}
    /\ UNCHANGED <<has_required_deps, init_call>>

Next == Construct \/ Generate

Spec == Init /\ [][Next]_vars

-----------------------------------------------------------------------------
(* Vocabulary of the properties                                            *)

\* a config value that is missing (no key, or None) or empty
MissingOrEmpty(config, key) ==
    \/ key \notin DOMAIN config
    \/ config[key].t = "none"
    \/ (config[key].t = "str" /\ config[key].v = "")

Constructed == init_call.called
Generated == n_generate > 0

InitFailedWith(text) ==
    /\ init_call.exc.cls = "ValueError"
    /\ Contains(init_call.exc.msg, text)
    /\ ~provider.exists

\* the last generate() call failed with the provider's error and this prefix
FailedWith(prefix) ==
    /\ last.raised.cls = "ValueError"
    /\ StartsWith(last.raised.msg, prefix)

ErrorPrefixes ==
    {"Request timed out", "Error making request", "Unexpected response structure",
     "Error JSON parsing response", "OpenAI API error"}

\* the response has the shape choices[0].message.content
WellShaped(response) ==
    /\ response.t = "obj" /\ "choices" \in DOMAIN response.v
    /\ response.v.choices.t = "list" /\ Len(response.v.choices.v) > 0
    /\ response.v.choices.v[1].t = "obj"
    /\ "message" \in DOMAIN response.v.choices.v[1].v
    /\ response.v.choices.v[1].v.message.t = "obj"
    /\ "content" \in DOMAIN response.v.choices.v[1].v.message.v

ContentOf(response) == response.v.choices.v[1].v.message.v.content

Returned == last.outcome.exc = NoExc
ReturnedText ==
    Returned /\ WellShaped(last.outcome.response)
    /\ ContentOf(last.outcome.response).t = "str"

SchemaSupplied == last.response_schema.t # "none"

\* the raw response written out as text
RECURSIVE Dump(_)
RECURSIVE DumpItems(_, _)
RECURSIVE DumpAttrs(_, _)
DumpItems(items, isPairs) ==
    IF items = << >> THEN ""
    ELSE (IF isPairs THEN "\"" \o Head(items)[1] \o "\": " \o Dump(Head(items)[2])
                     ELSE Dump(Head(items)))
         \o (IF Len(items) > 1 THEN ", " ELSE "")
         \o DumpItems(Tail(items), isPairs)
DumpAttrs(attrs, names) ==
    IF names = {} THEN ""
    ELSE LET n == CHOOSE x \in names : TRUE
         IN "\"" \o n \o "\": " \o Dump(attrs[n])
            \o (IF Cardinality(names) > 1 THEN ", " ELSE "")
            \o DumpAttrs(attrs, names \ {n})
Dump(x) ==
    CASE x.t = "none" -> "null"
      [] x.t = "str" -> "\"" \o x.v \o "\""
      [] x.t = "int" -> ToString(x.v)
      [] x.t = "bool" -> IF x.v THEN "true" ELSE "false"
      [] x.t = "list" -> "[" \o DumpItems(x.v, FALSE) \o "]"
      [] x.t = "dict" -> "{" \o DumpItems(x.v, TRUE) \o "}"
      [] OTHER -> "{" \o DumpAttrs(x.v, DOMAIN x.v) \o "}"

-----------------------------------------------------------------------------
(* Construction                                                            *)

\* what OpenAI(config) must do about api_key and model
FailFast ==
    LET config == init_call.config
    IN /\ MissingOrEmpty(config, "api_key") => InitFailedWith("api_key is required")
       /\ (~MissingOrEmpty(config, "api_key") /\ MissingOrEmpty(config, "model"))
            => InitFailedWith("model is required")
       /\ provider.exists =>
            /\ ~MissingOrEmpty(config, "api_key") /\ ~MissingOrEmpty(config, "model")
            /\ provider.api_key = config.api_key /\ provider.model = config.model
       /\ provider.client # NoClient => provider.exists

\* C1 as stated: every OpenAI(config) with api_key missing or empty fails with
\* "api_key is required", every one with an api_key and model missing or empty
\* fails with "model is required", and no provider or client exists unless both
\* are non-empty.
C1_FailFastAlways == Constructed => FailFast

\* C1 amended: the same whenever the openai package is importable; when it is
\* not, every OpenAI(config) fails with the package-required message, whatever
\* the config, and no provider or client exists.
C1_FailFast ==
    Constructed =>
        /\ has_required_deps => FailFast
        /\ ~has_required_deps =>
              /\ InitFailedWith("requires the 'openai' package")
              /\ provider.client = NoClient

\* C1 witness: with the package importable, an api_key and no model: the model
\* check has fired.
C1_Witness ==
    /\ Constructed /\ has_required_deps
    /\ ~MissingOrEmpty(init_call.config, "api_key")
    /\ MissingOrEmpty(init_call.config, "model")
    /\ InitFailedWith("model is required")

\* the host of an https URL
HostOf(url) == SubSeq(url, Len("https://") + 1, Len(url))

\* C8: a base_url in the config is applied to the client (the client's base URL
\* contains its host); without one the client targets the canonical endpoint.
C8_BaseUrlApplied ==
    provider.exists =>
        /\ "base_url" \in DOMAIN provider.config =>
              Contains(provider.client.base_url.v, HostOf(provider.config.base_url.v))
        /\ "base_url" \notin DOMAIN provider.config =>
              provider.client.base_url.v = CANONICAL_BASE_URL

-----------------------------------------------------------------------------
(* Request building                                                        *)

HasFormatFlag(kwargs) ==
    /\ "response_format" \in DOMAIN kwargs
    /\ kwargs.response_format = [type |-> "json_object"]

\* C3: the payload of a call carries response_format = {type: json_object}
\* exactly when a response_schema is supplied, whatever the schema holds.
C3_FlagIffSchemaSupplied ==
    Generated =>
        \A i \in 1..Len(last.created) :
            /\ SchemaSupplied => HasFormatFlag(last.created[i])
            /\ ~SchemaSupplied => "response_format" \notin DOMAIN last.created[i]

-----------------------------------------------------------------------------
(* Invocation and error classification                                     *)

TimedOut == IsInstance(last.outcome.exc.cls, "APITimeoutError")
\* a connection failure or a vendor API error that is no timeout
RequestFailed == IsInstance(last.outcome.exc.cls, "APIError") /\ ~TimedOut
Malformed == Returned /\ ~WellShaped(last.outcome.response)
\* the extracted text is not valid JSON
BadJson ==
    ReturnedText /\ json_loads(ContentOf(last.outcome.response)).exc # NoExc

\* C2: each of the four causes yields its own prefix, and no prefix is reported
\* for another cause.
C2_Classification ==
    Generated =>
        /\ TimedOut <=> FailedWith("Request timed out")
        /\ RequestFailed <=> FailedWith("Error making request")
        /\ Malformed <=> FailedWith("Unexpected response structure")
        /\ (SchemaSupplied /\ BadJson) <=> FailedWith("Error JSON parsing response")

\* C4: every call ends in the unparsed text (no schema), the parsed value
\* (schema supplied), or a classified error.
C4_ThreeOutcomes ==
    Generated =>
        \/ /\ ~SchemaSupplied /\ last.raised = NoExc /\ ReturnedText
           /\ last.value = ContentOf(last.outcome.response)
        \/ /\ SchemaSupplied /\ last.raised = NoExc /\ ReturnedText /\ ~BadJson
           /\ last.value = json_loads(ContentOf(last.outcome.response)).val
        \/ /\ last.raised.cls = "ValueError"
           /\ \E p \in ErrorPrefixes : StartsWith(last.raised.msg, p)

\* C5: a response of any other shape than choices[0].message.content fails with
\* the fixed "Unexpected response structure" text, which holds nothing of the
\* response.
C5_ShapeError ==
    (Generated /\ Malformed) =>
        /\ FailedWith("Unexpected response structure")
        /\ last.raised.msg = SHAPE_MESSAGE
        /\ ~Contains(last.raised.msg, Dump(last.outcome.response))

\* the call asked the backend for structured output
StructuredMode == \E i \in 1..Len(last.created) : HasFormatFlag(last.created[i])

\* the part of an error message after the parse prefix
AfterPrefix(msg) == SubSeq(msg, Len(PARSE_PREFIX) + 1, Len(msg))

\* C6: in structured mode a text that is not valid JSON fails with the prefix
\* followed by the text unchanged when it has at most 100 characters, and by its
\* first 100 characters and "..." when it has more: at most 103 characters.
C6_Truncation ==
    (Generated /\ StructuredMode /\ BadJson) =>
        LET text == ContentOf(last.outcome.response).v
        IN /\ FailedWith(PARSE_PREFIX)
           /\ Len(AfterPrefix(last.raised.msg)) <= 103
           /\ Len(text) > 100 =>
                AfterPrefix(last.raised.msg) = SubSeq(text, 1, 100) \o "..."
           /\ Len(text) <= 100 => AfterPrefix(last.raised.msg) = text

\* C6 witness: a parse failure on a text of more than 100 characters, reported
\* with the marker.
C6_Witness ==
    /\ Generated /\ StructuredMode /\ BadJson
    /\ Len(ContentOf(last.outcome.response).v) > 100
    /\ FailedWith(PARSE_PREFIX)
    /\ SubSeq(last.raised.msg, Len(last.raised.msg) - 2, Len(last.raised.msg)) = "..."

\* C7: every generate() call, however it ends, makes exactly one create() call.
C7_OneCallPerGenerate ==
    [][n_generate' # n_generate =>
          /\ n_generate' = n_generate + 1
          /\ n_create' = n_create + 1
          /\ Len(last'.created) = 1]_vars

\* C7 witness: a second generate() call that timed out, two create() calls made.
C7_Witness == n_generate = 2 /\ n_create = 2 /\ TimedOut

-----------------------------------------------------------------------------
(* Error messages                                                          *)

HasKey(config) ==
    "api_key" \in DOMAIN config /\ config.api_key.t = "str" /\ config.api_key.v # ""

InitMessageClean ==
    (Constructed /\ init_call.exc # NoExc /\ HasKey(init_call.config)) =>
        ~Contains(init_call.exc.msg, init_call.config.api_key.v)

ParseFailed == ReturnedText /\ FailedWith(PARSE_PREFIX)

-----------------------------------------------------------------------------
(* Statelessness                                                           *)

\* the payload generate() builds for a prompt on this provider
WellFormedPayload(kwargs, prompt, self) ==
    /\ kwargs.model = self.model
    /\ kwargs.messages = << [role |-> "user", content |-> prompt] >>
    /\ kwargs.max_tokens = Get(self.config, "max_output_tokens", DEFAULT_MAX_OUTPUT_TOKENS)
    /\ kwargs.temperature = Get(self.config, "temperature", DEFAULT_TEMPERATURE)
    /\ kwargs.top_p = Get(self.config, "top_p", DEFAULT_TOP_P)

\* C10: a generate() call leaves api_key, model, config and client as they were,
\* and all calls with the same (prompt, response_schema) send the same payload.
C10_Stateless ==
    [][n_generate' # n_generate =>
          /\ provider' = provider
          /\ \A a \in sent' : WellFormedPayload(a.kwargs, a.prompt, provider)
          /\ \A a, b \in sent' :
                (a.prompt = b.prompt /\ a.response_schema = b.response_schema)
                    => a.kwargs = b.kwargs]_vars

\* C10 witness: two calls with the same prompt and schema, one payload sent.
C10_Witness == n_generate = 2 /\ n_create = 2 /\ Cardinality(sent) = 1

====
